---- MODULE Spec2Model ----
(***************************************************************************)
(* Model of proman_core's process Manager (src/src/procore.py): one child  *)
(* process, its asyncio StreamReader for stdout, the three asyncio queues  *)
(* and the output / error / input runner tasks, together with a caller     *)
(* that uses start(), read() and write(), and with the disposal of the     *)
(* Manager (__del__).  The rule classes Action and Actions of the same     *)
(* file are modelled next to it.                                           *)
(*                                                                         *)
(* Scheduling follows asyncio: a task runs without interruption from one   *)
(* real suspension to the next.  queue.put() on an unbounded queue and     *)
(* readline() on a buffer that already holds a line do not suspend, so a   *)
(* runner step drains everything that is available before it yields.       *)
(* The child process and the event loop's callbacks (data fed into the     *)
(* StreamReader, returncode being set, end of file) are steps of their own *)
(* that interleave with the task steps.                                    *)
(***************************************************************************)
EXTENDS Integers, Sequences, FiniteSets, TLC

\* ------------------------------------------------------------------ bounds
MaxLines == 3        \* lines the child writes over its life
MaxWrites == 2       \* write() calls the caller makes
MaxPayloadLen == 2   \* length of the byte strings handed to write()
MaxStarts == 2       \* start() calls made on one Manager
MaxTextLen == 3      \* bytes of a line handed to perform_action
MaxPatterns == 2     \* removal patterns of one Action
MaxRules == 2        \* action descriptions handed to register_actions

\* --------------------------------------------------------------- constants
CR == 13
LF == 10
Letter == 97         \* a byte that is part of no line terminator

Bytes == {CR, LF, Letter}
CRLF == <<CR, LF>>
None == "None"
AsciiMax == 127      \* bytes above it are no UTF-8 text on their own
TextBytes == {97, 98, 255}

VARIABLES
    manage_stdin,      \* Manager._manage_stdin
    dedicated_stderr,  \* Manager._dedicated_stderr
    process,           \* Manager._process: None or "created"
    returncode,        \* proc.returncode: None or "exited"
    childAlive,        \* the child process still runs at the OS level
    written,           \* every line the child has written, in order
    stdout_buf,        \* complete lines held by the proc.stdout StreamReader
    stdout_eof,        \* feed_eof() was called on proc.stdout
    stdout_waiter,     \* task suspended in proc.stdout.readline(), or None
    stderr_buf,        \* lines held by the proc.stderr StreamReader
    stdin_closing,     \* proc.stdin.is_closing()
    stdin_written,     \* items handed to proc.stdin.write(), in order
    queues,            \* which of the three queues start() has created
    output_queue,
    error_queue,
    input_queue,
    output_task,       \* position of output_runner
    error_task,        \* position of error_runner
    input_task,        \* position of input_runner
    callerPc,          \* "idle", or "reading" while a read() is pending
    delivered,         \* results of the read() calls that returned, in order
    nWrites,           \* write() calls made so far
    lastWrite,         \* the most recent write() call and what it saw
    disposed,          \* Manager.__del__ has run
    spawned,           \* child processes start() has created so far
    orphans,           \* children and tasks of earlier start() calls
    pipe_held,         \* a command forked by the shell holds the stdout pipe
    action_obj,        \* the Action object constructed, if any
    invoked,           \* texts its callable was called with, in order
    performed,         \* perform_action calls made on it and how they ended
    engine_actions,    \* Actions._actions, if the attribute exists
    engine_descs,      \* the descriptions given to register_actions
    register_result,   \* how the register_actions call ended
    evaluated,         \* rules perform_actions has evaluated, in order
    fired,             \* rules whose callable perform_actions has invoked
    perform_result     \* how the perform_actions call ended

vars == <<manage_stdin, dedicated_stderr, process, returncode, childAlive,
          written, stdout_buf, stdout_eof, stdout_waiter, stderr_buf,
          stdin_closing, stdin_written, queues, output_queue, error_queue,
          input_queue, output_task, error_task, input_task, callerPc,
          delivered, nWrites, lastWrite, disposed, spawned, orphans,
          pipe_held, action_obj, invoked, performed, engine_actions,
          engine_descs, register_result, evaluated, fired, perform_result>>

\* The variables of the rule classes, which no Manager step touches.
ruleVars == <<action_obj, invoked, performed, engine_actions, engine_descs,
              register_result, evaluated, fired, perform_result>>

\* The variables of the Manager's life cycle beyond one start().
lifeVars == <<disposed, spawned, orphans, pipe_held>>

\* ----------------------------------------------------------------- helpers
Range(s) == {s[i] : i \in 1..Len(s)}

RECURSIVE SeqsUpTo(_, _)
SeqsUpTo(S, n) ==
    IF n = 0 THEN {<<>>}
    ELSE LET shorter == SeqsUpTo(S, n - 1)
         IN  shorter \cup {Append(s, b) : s \in shorter, b \in S}

Payloads == SeqsUpTo(Bytes, MaxPayloadLen)

\* bytes.endswith(b"\r\n")
EndsWith(data, suffix) ==
    /\ Len(data) >= Len(suffix)
    /\ SubSeq(data, Len(data) - Len(suffix) + 1, Len(data)) = suffix

\* The StreamReader's line limit (2 ** 16 bytes in asyncio), scaled down.
LineLimit == 2

\* The sizes a line the child writes can have, newline included: 1 is an
\* empty line, LineLimit + 1 a line over the limit.
LineSizes == 1..(LineLimit + 1)

\* A line of child output: id is its position in the child's production
\* order, fd the descriptor it was written to, size its length in bytes
\* with its newline, long whether it exceeds the StreamReader's line limit.
Line(id, fd, size) ==
    [id |-> id, fd |-> fd, size |-> size, long |-> size > LineLimit]

\* b"": what readline() returns at end of file and what output_runner
\* enqueues as its end-of-stream marker.  Every real line has id >= 1 (it
\* holds at least its newline byte).
EmptyBytes == [id |-> 0, fd |-> "eof", size |-> 0, long |-> FALSE]

IsLine(item) == item.id > 0

\* The pipe a write to fd ends up in: stderr is redirected into stdout
\* unless a dedicated stderr pipe was requested.
PipeOf(fd) == IF fd = "stderr" /\ dedicated_stderr THEN "stderr" ELSE "stdout"

\* A put that strips the line terminator off the item first.
QueuePutStripped(q, item) ==
    Append(q, [item EXCEPT !.size = IF @ > 0 THEN @ - 1 ELSE 0])

\* A queue that hands out the newest item first (asyncio.LifoQueue).
QueuePutFront(q, item) == <<item>> \o q

\* await queue.put(item).  put() waits for room instead of raising
\* QueueFull, and a queue built with no maxsize is never full, so the
\* "except asyncio.QueueFull" branch of the runners is never taken and the
\* item is always appended.
QueuePut(q, item) == Append(q, item)

\* A normalisation that appends the terminator without looking at the data.
NormalizeAlways(data) == data \o CRLF

\* write()'s line-terminator normalisation.
Normalize(data) == IF EndsWith(data, CRLF) THEN data ELSE data \o CRLF

\* ------------------------------------------------------------ reader tasks
\* One uninterrupted run of a reader loop (output_runner / error_runner),
\* both of which read proc.stdout.  entry is "test" when the run starts at
\* the loop test "while proc.returncode is None" and "readline" when it
\* resumes inside readline() after being woken.  The result gives the
\* task's new position and the new buffer, queue and waiter.
\*   - returncode set at the loop test: leave the loop;
\*   - a line is buffered: readline() returns it, unless it is longer than
\*     the StreamReader limit, in which case readline() drops it from the
\*     buffer and raises ValueError, which ends the task;
\*   - nothing buffered and end of file: readline() returns b"", break;
\*   - nothing buffered: wait for data; a second waiter on the same
\*     StreamReader gets RuntimeError, which ends the task.
\* Leaving the loop, output_runner enqueues b"" (marker = TRUE);
\* error_runner enqueues nothing (marker = FALSE).
RECURSIVE ReaderRun(_, _, _, _, _, _)
ReaderRun(me, entry, buf, queue, waiter, marker) ==
    LET finished == [pc |-> "done", buf |-> buf, waiter |-> waiter,
                     queue |-> IF marker THEN QueuePut(queue, EmptyBytes)
                               ELSE queue]
    IN  IF entry = "test" /\ returncode # None THEN finished
        ELSE IF buf # <<>> THEN
            IF Head(buf).long
            THEN [pc |-> "failed", buf |-> Tail(buf), waiter |-> waiter,
                  queue |-> queue]
            ELSE ReaderRun(me, "test", Tail(buf), QueuePut(queue, Head(buf)),
                           waiter, marker)
        ELSE IF stdout_eof THEN finished
        ELSE IF waiter # None
            THEN [pc |-> "failed", buf |-> buf, waiter |-> waiter,
                  queue |-> queue]
            ELSE [pc |-> "waiting", buf |-> buf, waiter |-> me,
                  queue |-> queue]

\* Where a run of a reader task starts from, given its position.
EntryOf(pc) == IF pc = "created" THEN "test" ELSE "readline"

\* StreamReader._wakeup_waiter(): the waiting task, if any, is made runnable
\* and the waiter slot is cleared.
Woken(task, name) ==
    IF stdout_waiter = name /\ task = "waiting" THEN "woken" ELSE task

\* ------------------------------------------------------------- writer task
\* One uninterrupted run of input_runner's loop: leave when returncode is
\* set; with an item queued, dequeue it and either stop (stdin is closing,
\* the dequeued item is dropped) or write it and go round again (drain()
\* does not suspend on an open, unpaused pipe); with nothing queued,
\* sleep(0) hands control back to the event loop.
\* A queue whose get() hands out the newest item.
QueueGetLast(queue) ==
    [item |-> queue[Len(queue)], rest |-> SubSeq(queue, 1, Len(queue) - 1)]

\* asyncio.Queue.get() on a queue that holds something: the oldest item,
\* at once.
QueueGet(queue) == [item |-> Head(queue), rest |-> Tail(queue)]

\* The loop without the look at proc.stdin.is_closing().
RECURSIVE InputRunNoClosingCheck(_, _)
InputRunNoClosingCheck(queue, out) ==
    IF returncode # None THEN [pc |-> "done", queue |-> queue, out |-> out]
    ELSE IF Len(queue) > 0 THEN
        LET got == QueueGet(queue)
        IN  InputRunNoClosingCheck(got.rest, Append(out, got.item))
    ELSE [pc |-> "sleeping", queue |-> queue, out |-> out]

RECURSIVE InputRun(_, _)
InputRun(queue, out) ==
    IF returncode # None THEN [pc |-> "done", queue |-> queue, out |-> out]
    ELSE IF Len(queue) > 0 THEN
        LET got == QueueGet(queue)
        IN  IF stdin_closing
            THEN [pc |-> "done", queue |-> got.rest, out |-> out]
            ELSE InputRun(got.rest, Append(out, got.item))
    ELSE [pc |-> "sleeping", queue |-> queue, out |-> out]

\* -------------------------------------------------------------------- Init
\* Manager.__init__: the flags are fixed, nothing has been started.
Init ==
    /\ manage_stdin \in BOOLEAN
    /\ dedicated_stderr \in BOOLEAN
    /\ process = None
    /\ returncode = None
    /\ childAlive = FALSE
    /\ written = <<>>
    /\ stdout_buf = <<>>
    /\ stdout_eof = FALSE
    /\ stdout_waiter = None
    /\ stderr_buf = <<>>
    /\ stdin_closing = FALSE
    /\ stdin_written = <<>>
    /\ queues = {}
    /\ output_queue = <<>>
    /\ error_queue = <<>>
    /\ input_queue = <<>>
    /\ output_task = "none"
    /\ error_task = "none"
    /\ input_task = "none"
    /\ callerPc = "idle"
    /\ delivered = <<>>
    /\ nWrites = 0
    /\ lastWrite = [data |-> <<>>, running |-> FALSE, closing |-> FALSE]
    /\ disposed = FALSE
    /\ spawned = 0
    /\ orphans = <<>>
    /\ pipe_held = FALSE
    /\ action_obj = <<>>
    /\ invoked = <<>>
    /\ performed = <<>>
    /\ engine_actions = <<>>
    /\ engine_descs = <<>>
    /\ register_result = <<>>
    /\ evaluated = <<>>
    /\ fired = <<>>
    /\ perform_result = <<>>

\* ----------------------------------------------------------------- Manager
\* Manager.start(), called on a Manager that has no process yet: spawn the
\* child, create the three queues, create the output task always and the
\* error / input tasks according to the flags.
start ==
    /\ process = None
    /\ ~disposed
    /\ process' = "created"
    /\ spawned' = spawned + 1
    /\ childAlive' = TRUE
    /\ queues' = {"output", "error", "input"}
    /\ output_queue' = <<>>
    /\ error_queue' = <<>>
    /\ input_queue' = <<>>
    /\ output_task' = "created"
    /\ error_task' = IF dedicated_stderr THEN "created" ELSE "none"
    /\ input_task' = IF manage_stdin THEN "created" ELSE "none"
    /\ UNCHANGED <<ruleVars, disposed, orphans, pipe_held, manage_stdin,
                   dedicated_stderr, returncode, written,
                   stdout_buf, stdout_eof, stdout_waiter, stderr_buf,
                   stdin_closing, stdin_written, callerPc, delivered,
                   nWrites, lastWrite>>

\* The tasks among the current three that have not finished.
RunningTasks ==
    Cardinality({t \in {"output", "error", "input"} :
        LET pc == IF t = "output" THEN output_task
                  ELSE IF t = "error" THEN error_task ELSE input_task
        IN  pc \notin {"none", "done", "failed"}})

\* Manager.start(), called again on a Manager that already has a process.
\* The method has no guard: it spawns another child and overwrites
\* _process, the queues and the task attributes.  The earlier child is not
\* killed and the earlier tasks are not cancelled; they keep their own
\* references to the earlier process and queues.  What is left behind is
\* recorded in orphans: whether the earlier child is alive and how many of
\* its tasks were still running.
start_again ==
    /\ process # None
    /\ ~disposed
    /\ callerPc = "idle"
    /\ spawned < MaxStarts
    /\ spawned' = spawned + 1
    /\ orphans' = Append(orphans, [alive |-> childAlive,
                                   tasks |-> RunningTasks])
    /\ returncode' = None
    /\ childAlive' = TRUE
    /\ pipe_held' = FALSE
    /\ written' = <<>>
    /\ stdout_buf' = <<>>
    /\ stdout_eof' = FALSE
    /\ stdout_waiter' = None
    /\ stderr_buf' = <<>>
    /\ stdin_closing' = FALSE
    /\ stdin_written' = <<>>
    /\ queues' = {"output", "error", "input"}
    /\ output_queue' = <<>>
    /\ error_queue' = <<>>
    /\ input_queue' = <<>>
    /\ output_task' = "created"
    /\ error_task' = IF dedicated_stderr THEN "created" ELSE "none"
    /\ input_task' = IF manage_stdin THEN "created" ELSE "none"
    /\ UNCHANGED <<ruleVars, disposed, manage_stdin, dedicated_stderr,
                   process, callerPc, delivered, nWrites, lastWrite>>

\* Manager.__del__: the Manager is collected once nothing refers to it (a
\* pending read() does).  If it has a process whose returncode is still
\* None, that process is killed.  The tasks are left alone.
dispose ==
    /\ ~disposed
    /\ callerPc = "idle"
    /\ disposed' = TRUE
    /\ childAlive' = IF process # None /\ returncode = None
                     THEN FALSE ELSE childAlive
    /\ UNCHANGED <<ruleVars, spawned, orphans, pipe_held, manage_stdin,
                   dedicated_stderr, process, returncode, written,
                   stdout_buf, stdout_eof, stdout_waiter, stderr_buf,
                   stdin_closing, stdin_written, queues, output_queue,
                   error_queue, input_queue, output_task, error_task,
                   input_task, callerPc, delivered, nWrites, lastWrite>>

\* Manager.read(), the call: the caller starts awaiting output_queue.get().
read_call ==
    /\ process # None
    /\ ~disposed
    /\ callerPc = "idle"
    /\ callerPc' = "reading"
    /\ UNCHANGED <<ruleVars, lifeVars, manage_stdin, dedicated_stderr,
                   process, returncode,
                   childAlive, written, stdout_buf, stdout_eof, stdout_waiter,
                   stderr_buf, stdin_closing, stdin_written, queues,
                   output_queue, error_queue, input_queue, output_task,
                   error_task, input_task, delivered, nWrites, lastWrite>>

\* Manager.read(), the return: get() hands over the oldest queued item; it
\* stays suspended while the queue is empty.
read_return ==
    /\ callerPc = "reading"
    /\ Len(output_queue) > 0
    /\ delivered' = Append(delivered, Head(output_queue))
    /\ output_queue' = Tail(output_queue)
    /\ callerPc' = "idle"
    /\ UNCHANGED <<ruleVars, lifeVars, manage_stdin, dedicated_stderr,
                   process, returncode,
                   childAlive, written, stdout_buf, stdout_eof, stdout_waiter,
                   stderr_buf, stdin_closing, stdin_written, queues,
                   error_queue, input_queue, output_task, error_task,
                   input_task, nWrites, lastWrite>>

\* Manager.write(data): enqueue the normalised data while returncode is
\* None, do nothing otherwise.
write(data) ==
    /\ process # None
    /\ ~disposed
    /\ nWrites < MaxWrites
    /\ nWrites' = nWrites + 1
    /\ lastWrite' = [data |-> data, running |-> returncode = None,
                     closing |-> stdin_closing]
    /\ input_queue' = IF returncode = None
                      THEN QueuePut(input_queue, Normalize(data))
                      ELSE input_queue
    /\ UNCHANGED <<ruleVars, lifeVars, manage_stdin, dedicated_stderr,
                   process, returncode,
                   childAlive, written, stdout_buf, stdout_eof, stdout_waiter,
                   stderr_buf, stdin_closing, stdin_written, queues,
                   output_queue, error_queue, output_task, error_task,
                   input_task, callerPc, delivered>>

\* ------------------------------------------------------------------- tasks
\* A run of output_runner, from its creation or from a wake-up.
output_runner ==
    /\ output_task \in {"created", "woken"}
    /\ LET r == ReaderRun("output", EntryOf(output_task), stdout_buf,
                          output_queue, stdout_waiter, TRUE)
       IN  /\ output_task' = r.pc
           /\ stdout_buf' = r.buf
           /\ output_queue' = r.queue
           /\ stdout_waiter' = r.waiter
    /\ UNCHANGED <<ruleVars, lifeVars, manage_stdin, dedicated_stderr,
                   process, returncode,
                   childAlive, written, stdout_eof, stderr_buf, stdin_closing,
                   stdin_written, queues, error_queue, input_queue,
                   error_task, input_task, callerPc, delivered, nWrites,
                   lastWrite>>

\* A run of error_runner.  It reads proc.stdout, like output_runner, and
\* enqueues no marker.  Tasks take their first step in creation order, so
\* output_runner has run up to its first suspension before error_runner
\* starts (input_runner shares nothing with the two and needs no such
\* order).
error_runner ==
    /\ error_task \in {"created", "woken"}
    /\ output_task # "created"
    /\ LET r == ReaderRun("error", EntryOf(error_task), stdout_buf,
                          error_queue, stdout_waiter, FALSE)
       IN  /\ error_task' = r.pc
           /\ stdout_buf' = r.buf
           /\ error_queue' = r.queue
           /\ stdout_waiter' = r.waiter
    /\ UNCHANGED <<ruleVars, lifeVars, manage_stdin, dedicated_stderr,
                   process, returncode,
                   childAlive, written, stdout_eof, stderr_buf, stdin_closing,
                   stdin_written, queues, output_queue, input_queue,
                   output_task, input_task, callerPc, delivered, nWrites,
                   lastWrite>>

\* A run of input_runner, from its creation or after sleep(0).
input_runner ==
    /\ input_task \in {"created", "sleeping"}
    /\ LET r == InputRun(input_queue, stdin_written)
       IN  /\ input_task' = r.pc
           /\ input_queue' = r.queue
           /\ stdin_written' = r.out
    /\ UNCHANGED <<ruleVars, lifeVars, manage_stdin, dedicated_stderr,
                   process, returncode,
                   childAlive, written, stdout_buf, stdout_eof, stdout_waiter,
                   stderr_buf, stdin_closing, queues, output_queue,
                   error_queue, output_task, error_task, callerPc, delivered,
                   nWrites, lastWrite>>

\* ------------------------------------------------- child process, event loop
\* start() creates the output and the error task back to back, so the event
\* loop runs their first steps in the same pass over its ready queue and
\* polls no pipe in between.  (The child watcher reports an exit from its own
\* thread and is not held back by this.)
FirstStepsPending == output_task # "created" /\ error_task = "created"

\* The child writes one line to stdout or stderr; the event loop feeds it to
\* the StreamReader of the pipe it went to, and feeding proc.stdout wakes
\* the task waiting there.
ChildWrite(fd, size) ==
    /\ childAlive
    /\ ~FirstStepsPending
    /\ Len(written) < MaxLines
    /\ LET line == Line(Len(written) + 1, fd, size)
       IN  /\ written' = Append(written, line)
           /\ IF PipeOf(fd) = "stdout"
              THEN /\ stdout_buf' = Append(stdout_buf, line)
                   /\ output_task' = Woken(output_task, "output")
                   /\ error_task' = Woken(error_task, "error")
                   /\ stdout_waiter' = None
                   /\ UNCHANGED stderr_buf
              ELSE /\ stderr_buf' = Append(stderr_buf, line)
                   /\ UNCHANGED <<stdout_buf, output_task, error_task,
                                  stdout_waiter>>
    /\ UNCHANGED <<ruleVars, lifeVars, manage_stdin, dedicated_stderr,
                   process, returncode,
                   childAlive, stdout_eof, stdin_closing, stdin_written,
                   queues, output_queue, error_queue, input_queue, input_task,
                   callerPc, delivered, nWrites, lastWrite>>

\* The child exits at the OS level.
ChildExit ==
    /\ childAlive
    /\ childAlive' = FALSE
    /\ UNCHANGED <<ruleVars, lifeVars, manage_stdin, dedicated_stderr,
                   process, returncode,
                   written, stdout_buf, stdout_eof, stdout_waiter, stderr_buf,
                   stdin_closing, stdin_written, queues, output_queue,
                   error_queue, input_queue, output_task, error_task,
                   input_task, callerPc, delivered, nWrites, lastWrite>>

\* The event loop's child watcher reports the exit: proc.returncode is set.
ProcessExited ==
    /\ process # None
    /\ ~childAlive
    /\ returncode = None
    /\ returncode' = "exited"
    /\ UNCHANGED <<ruleVars, lifeVars, manage_stdin, dedicated_stderr,
                   process, childAlive,
                   written, stdout_buf, stdout_eof, stdout_waiter, stderr_buf,
                   stdin_closing, stdin_written, queues, output_queue,
                   error_queue, input_queue, output_task, error_task,
                   input_task, callerPc, delivered, nWrites, lastWrite>>

\* The stdout pipe reports end of file once the child is gone and nothing
\* else holds its write end: feed_eof() on proc.stdout, which wakes the task
\* waiting there.
StdoutEof ==
    /\ process # None
    /\ ~childAlive
    /\ ~pipe_held
    /\ ~stdout_eof
    /\ ~FirstStepsPending
    /\ stdout_eof' = TRUE
    /\ output_task' = Woken(output_task, "output")
    /\ error_task' = Woken(error_task, "error")
    /\ stdout_waiter' = None
    /\ UNCHANGED <<ruleVars, lifeVars, manage_stdin, dedicated_stderr,
                   process, returncode,
                   childAlive, written, stdout_buf, stderr_buf, stdin_closing,
                   stdin_written, queues, output_queue, error_queue,
                   input_queue, input_task, callerPc, delivered, nWrites,
                   lastWrite>>

\* The child's end of the stdin pipe is closed (by the child, or by its
\* exit) and the transport of proc.stdin starts closing.
StdinClose ==
    /\ process # None
    /\ manage_stdin
    /\ ~stdin_closing
    /\ stdin_closing' = TRUE
    /\ UNCHANGED <<ruleVars, lifeVars, manage_stdin, dedicated_stderr,
                   process, returncode,
                   childAlive, written, stdout_buf, stdout_eof, stdout_waiter,
                   stderr_buf, stdin_written, queues, output_queue,
                   error_queue, input_queue, output_task, error_task,
                   input_task, callerPc, delivered, nWrites, lastWrite>>

\* The child is a shell (create_subprocess_shell); it runs a command in a
\* process of its own, which inherits the write end of the stdout pipe.
ShellFork ==
    /\ childAlive
    /\ ~pipe_held
    /\ pipe_held' = TRUE
    /\ UNCHANGED <<ruleVars, disposed, spawned, orphans, manage_stdin,
                   dedicated_stderr, process, returncode, childAlive, written,
                   stdout_buf, stdout_eof, stdout_waiter, stderr_buf,
                   stdin_closing, stdin_written, queues, output_queue,
                   error_queue, input_queue, output_task, error_task,
                   input_task, callerPc, delivered, nWrites, lastWrite>>

\* The command the shell forked ends and lets go of the pipe.
DescendantExit ==
    /\ pipe_held
    /\ pipe_held' = FALSE
    /\ UNCHANGED <<ruleVars, disposed, spawned, orphans, manage_stdin,
                   dedicated_stderr, process, returncode, childAlive, written,
                   stdout_buf, stdout_eof, stdout_waiter, stderr_buf,
                   stdin_closing, stdin_written, queues, output_queue,
                   error_queue, input_queue, output_task, error_task,
                   input_task, callerPc, delivered, nWrites, lastWrite>>

\* A child left behind by start_again exits of its own accord.
OrphanExit(i) ==
    /\ orphans[i].alive
    /\ orphans' = [orphans EXCEPT ![i].alive = FALSE]
    /\ UNCHANGED <<ruleVars, disposed, spawned, pipe_held, manage_stdin,
                   dedicated_stderr, process, returncode, childAlive, written,
                   stdout_buf, stdout_eof, stdout_waiter, stderr_buf,
                   stdin_closing, stdin_written, queues, output_queue,
                   error_queue, input_queue, output_task, error_task,
                   input_task, callerPc, delivered, nWrites, lastWrite>>

\* The tasks left behind by start_again see their child's exit (returncode
\* set, end of file) and leave their loops.  While that child lives they sit
\* in readline() or go round their polling loop.
OrphanTasksFinish(i) ==
    /\ ~orphans[i].alive
    /\ orphans[i].tasks > 0
    /\ orphans' = [orphans EXCEPT ![i].tasks = 0]
    /\ UNCHANGED <<ruleVars, disposed, spawned, pipe_held, manage_stdin,
                   dedicated_stderr, process, returncode, childAlive, written,
                   stdout_buf, stdout_eof, stdout_waiter, stderr_buf,
                   stdin_closing, stdin_written, queues, output_queue,
                   error_queue, input_queue, output_task, error_task,
                   input_task, callerPc, delivered, nWrites, lastWrite>>

\* ------------------------------------------------------------------ Action
\* Regular expressions, as far as the model goes: a literal string, or one
\* character repeated one or more times (greedy).  Every match is non-empty.
Lit(str) == [kind |-> "lit", s |-> str]
Plus(c) == [kind |-> "plus", s |-> <<c>>]
Patterns == {Lit(<<97>>), Lit(<<98>>), Lit(<<97, 98>>), Plus(98)}

\* bytes.decode(): UTF-8.  ASCII bytes are their own code points; a byte
\* above 127 that no multi-byte sequence accounts for raises
\* UnicodeDecodeError.
Decodes(data) == \A i \in 1..Len(data) : data[i] <= AsciiMax
Decode(data) == [i \in 1..Len(data) |-> data[i]]

\* Length of the run of character c in text from position i on.
RECURSIVE RunLen(_, _, _)
RunLen(c, text, i) ==
    IF i > Len(text) \/ text[i] # c THEN 0
    ELSE 1 + RunLen(c, text, i + 1)

\* Length of the match of pattern at position i of text, 0 for no match.
MatchLen(pattern, text, i) ==
    IF pattern.kind = "plus" THEN RunLen(pattern.s[1], text, i)
    ELSE LET n == Len(pattern.s)
         IN  IF i + n - 1 <= Len(text)
                /\ SubSeq(text, i, i + n - 1) = pattern.s
             THEN n ELSE 0

\* re.match: the pattern matches at the beginning of the text.
match(pattern, text) == MatchLen(pattern, text, 1) > 0

\* re.sub(pattern, "", text): the leftmost non-overlapping matches removed,
\* scanning from position i.
RECURSIVE SubFrom(_, _, _)
SubFrom(pattern, text, i) ==
    IF i > Len(text) THEN <<>>
    ELSE LET n == MatchLen(pattern, text, i)
         IN  IF n > 0 THEN SubFrom(pattern, text, i + n)
             ELSE <<text[i]>> \o SubFrom(pattern, text, i + 1)

sub(pattern, text) == SubFrom(pattern, text, 1)

\* The removal patterns applied last first.
RECURSIVE ApplyRemovalsReversed(_, _)
ApplyRemovalsReversed(remove_patterns, decoded_data) ==
    IF remove_patterns = <<>> THEN decoded_data
    ELSE sub(Head(remove_patterns),
             ApplyRemovalsReversed(Tail(remove_patterns), decoded_data))

\* The loop of perform_action: each removal pattern in list order, each on
\* the result of the one before.
RECURSIVE ApplyRemovals(_, _)
ApplyRemovals(remove_patterns, decoded_data) ==
    IF remove_patterns = <<>> THEN decoded_data
    ELSE ApplyRemovals(Tail(remove_patterns),
                       sub(Head(remove_patterns), decoded_data))

\* What stands for a callable: a function that returns, a function that
\* raises, or a module object (what import_module returns), which cannot be
\* called.
Callables == {"returns", "raises"}

\* Action.perform_action(data) on an Action object: the outcome of the call
\* and the arguments its callable was invoked with.
PerformAction(obj, data) ==
    IF ~Decodes(data)
    THEN [result |-> "UnicodeDecodeError", invoked |-> <<>>]
    ELSE IF ~match(obj.condition, Decode(data))
    THEN [result |-> None, invoked |-> <<>>]
    ELSE LET text == ApplyRemovals(obj.remove_patterns, Decode(data))
         IN  IF obj.callable = "module"
             THEN [result |-> "TypeError", invoked |-> <<>>]
             ELSE IF obj.callable = "raises"
             THEN [result |-> "raised", invoked |-> <<text>>]
             ELSE [result |-> None, invoked |-> <<text>>]

lifeAndManagerVars ==
    <<lifeVars, manage_stdin, dedicated_stderr, process, returncode,
      childAlive, written, stdout_buf, stdout_eof, stdout_waiter, stderr_buf,
      stdin_closing, stdin_written, queues, output_queue, error_queue,
      input_queue, output_task, error_task, input_task, callerPc, delivered,
      nWrites, lastWrite>>

\* Action.__init__
Action_init(condition, action_callable, remove_patterns) ==
    /\ action_obj = <<>>
    /\ action_obj' = <<[condition |-> condition,
                        callable |-> action_callable,
                        remove_patterns |-> remove_patterns]>>
    /\ UNCHANGED <<invoked, performed, engine_actions, engine_descs,
                   register_result, evaluated, fired, perform_result,
                   lifeAndManagerVars>>

\* Action.perform_action(data).  performed holds the latest call and its
\* outcome, invoked the arguments the callable received during that call.
perform_action(data) ==
    /\ action_obj # <<>>
    /\ LET r == PerformAction(action_obj[1], data)
       IN  /\ performed' = <<[data |-> data, result |-> r.result]>>
           /\ invoked' = r.invoked
    /\ UNCHANGED <<action_obj, engine_actions, engine_descs,
                   register_result, evaluated, fired, perform_result,
                   lifeAndManagerVars>>

\* ----------------------------------------------------------------- Actions
\* A pattern source that re.compile rejects, such as "(".
Bad == [kind |-> "bad", s |-> <<>>]

\* re.compile: raises re.error on a source that is no regular expression.
Compiles(source) == source.kind # "bad"

\* Module names import_module can resolve; any other name raises
\* ModuleNotFoundError.
Importable == {"included_actions"}

\* Action descriptions as the configuration gives them.
Descriptions ==
    {[condition |-> Lit(<<97>>), remove_patterns |-> <<>>,
      callable |-> "included_actions"],
     [condition |-> Lit(<<98>>), remove_patterns |-> <<>>,
      callable |-> "included_actions"],
     [condition |-> Lit(<<97>>), remove_patterns |-> <<Lit(<<98>>)>>,
      callable |-> "included_actions"],
     [condition |-> Bad, remove_patterns |-> <<>>,
      callable |-> "included_actions"],
     [condition |-> Lit(<<97>>), remove_patterns |-> <<Bad>>,
      callable |-> "included_actions"],
     [condition |-> Lit(<<97>>), remove_patterns |-> <<>>,
      callable |-> "no_such_module"]}

\* The loop of register_actions over the descriptions left, attr being the
\* _actions attribute of the object: <<>> while the object has no such
\* attribute, <<list>> once it has.  The callable stored is what
\* import_module returns, a module object.
RECURSIVE RegisterActions(_, _)
RegisterActions(actions, attr) ==
    IF actions = <<>> THEN [result |-> None, attr |-> attr]
    ELSE LET action == Head(actions)
         IN  IF ~Compiles(action.condition)
             THEN [result |-> "re.error", attr |-> attr]
             ELSE IF \E k \in 1..Len(action.remove_patterns) :
                         ~Compiles(action.remove_patterns[k])
             THEN [result |-> "re.error", attr |-> attr]
             ELSE IF action.callable \notin Importable
             THEN [result |-> "ModuleNotFoundError", attr |-> attr]
             ELSE IF attr = <<>>
             THEN [result |-> "AttributeError", attr |-> attr]
             ELSE RegisterActions(Tail(actions),
                      <<Append(attr[1],
                          [condition |-> action.condition,
                           callable |-> "module",
                           remove_patterns |-> action.remove_patterns])>>)

\* The loop of perform_actions from rule i on: the rules whose
\* perform_action was called, the rules whose callable was invoked, and how
\* the loop ended.  An exception out of perform_action ends the loop.
RECURSIVE PerformFrom(_, _, _)
PerformFrom(list, i, data) ==
    IF i > Len(list)
    THEN [result |-> None, evaluated |-> <<>>, fired |-> <<>>]
    ELSE LET r == PerformAction(list[i], data)
             here == IF r.invoked # <<>> THEN <<i>> ELSE <<>>
         IN  IF r.result # None
             THEN [result |-> r.result, evaluated |-> <<i>>, fired |-> here]
             ELSE LET rest == PerformFrom(list, i + 1, data)
                  IN  [result |-> rest.result,
                       evaluated |-> <<i>> \o rest.evaluated,
                       fired |-> here \o rest.fired]

\* Actions.perform_actions(data) on an object whose _actions is attr.
PerformActions(attr, data) ==
    IF attr = <<>>
    THEN [result |-> "AttributeError", evaluated |-> <<>>, fired |-> <<>>]
    ELSE PerformFrom(attr[1], 1, data)

\* Actions.register_actions(actions), called once with the configured list.
\* Actions has no __init__, so the object starts without _actions.
register_actions(actions) ==
    /\ engine_descs = <<>>
    /\ LET r == RegisterActions(actions, engine_actions)
       IN  /\ engine_actions' = r.attr
           /\ register_result' = <<r.result>>
    /\ engine_descs' = <<actions>>
    /\ UNCHANGED <<action_obj, invoked, performed, evaluated, fired,
                   perform_result, lifeAndManagerVars>>

\* Actions.perform_actions(data).  perform_result holds the latest call
\* and its outcome, evaluated and fired what happened during that call.
perform_actions(data) ==
    /\ LET r == PerformActions(engine_actions, data)
       IN  /\ perform_result' = <<[data |-> data, result |-> r.result]>>
           /\ evaluated' = r.evaluated
           /\ fired' = r.fired
    /\ UNCHANGED <<action_obj, invoked, performed, engine_actions,
                   engine_descs, register_result, lifeAndManagerVars>>

\* -------------------------------------------------------------------- Next
Next ==
    \/ start
    \/ read_call
    \/ read_return
    \/ \E data \in Payloads : write(data)
    \/ output_runner
    \/ error_runner
    \/ input_runner
    \/ \E fd \in {"stdout", "stderr"}, size \in LineSizes : ChildWrite(fd, size)
    \/ ChildExit
    \/ ProcessExited
    \/ StdoutEof
    \/ StdinClose
    \/ start_again
    \/ dispose
    \/ ShellFork
    \/ DescendantExit
    \/ \E i \in 1..Len(orphans) : OrphanExit(i)
    \/ \E i \in 1..Len(orphans) : OrphanTasksFinish(i)
    \/ \E condition \in Patterns, action_callable \in Callables,
          remove_patterns \in SeqsUpTo(Patterns, MaxPatterns) :
            Action_init(condition, action_callable, remove_patterns)
    \/ \E data \in SeqsUpTo(TextBytes, MaxTextLen) : perform_action(data)
    \/ \E actions \in SeqsUpTo(Descriptions, MaxRules) :
            register_actions(actions)
    \/ \E data \in SeqsUpTo(TextBytes, MaxTextLen) : perform_actions(data)

Spec == Init /\ [][Next]_vars

\* The output side and the input side of the Manager share no variable that
\* either side writes and the other reads, apart from the process state set
\* by the child and the event loop.  Each side is therefore also checked on
\* its own, under the restriction of Next to the steps that touch it.
NextOutput ==
    \/ start
    \/ read_call
    \/ read_return
    \/ output_runner
    \/ error_runner
    \/ \E fd \in {"stdout", "stderr"}, size \in LineSizes : ChildWrite(fd, size)
    \/ ChildExit
    \/ ProcessExited
    \/ StdoutEof

SpecOutput == Init /\ [][NextOutput]_vars

NextInput ==
    \/ start
    \/ \E data \in Payloads : write(data)
    \/ input_runner
    \/ ChildExit
    \/ ProcessExited
    \/ StdinClose

SpecInput == Init /\ [][NextInput]_vars

\* Data handed to write() where only the identity and the order of the
\* items matter.
WriterPayloads == {<<Letter>>, <<Letter, Letter>>}

\* The input side with the event loop running the writer task whenever it
\* is ready.
NextWriter ==
    \/ start
    \/ \E data \in WriterPayloads : write(data)
    \/ input_runner
    \/ ChildExit
    \/ ProcessExited
    \/ StdinClose

SpecWriter == Init /\ [][NextWriter]_vars

FairWriter == SpecWriter /\ WF_vars(input_runner)

\* The life cycle of the Manager: start() calls, disposal, and how the
\* child and the tasks end.  The child writes nothing here.
NextLife ==
    \/ start
    \/ start_again
    \/ dispose
    \/ output_runner
    \/ error_runner
    \/ input_runner
    \/ ChildExit
    \/ ProcessExited
    \/ StdoutEof
    \/ ShellFork
    \/ DescendantExit
    \/ \E i \in 1..Len(orphans) : OrphanExit(i)
    \/ \E i \in 1..Len(orphans) : OrphanTasksFinish(i)

SpecLife == Init /\ [][NextLife]_vars

\* The state the Action and Actions objects are looked at in: no Manager
\* has been started, its flags are at the defaults of Manager.__init__.
InitDefault == Init /\ ~manage_stdin /\ ~dedicated_stderr

\* One Action object and the lines handed to it.
NextRule ==
    \/ \E condition \in Patterns, action_callable \in Callables,
          remove_patterns \in SeqsUpTo(Patterns, MaxPatterns) :
            Action_init(condition, action_callable, remove_patterns)
    \/ \E data \in SeqsUpTo(TextBytes, MaxTextLen) : perform_action(data)

SpecRule == InitDefault /\ [][NextRule]_vars

\* One Actions object, the list registered with it and the lines handed
\* to it.
NextEngine ==
    \/ \E actions \in SeqsUpTo(Descriptions, MaxRules) :
            register_actions(actions)
    \/ \E data \in SeqsUpTo(TextBytes, MaxTextLen) : perform_actions(data)

SpecEngine == InitDefault /\ [][NextEngine]_vars

\* The event loop runs every task that is ready and delivers every event it
\* has (exit of a child, end of file).  Nothing makes a child, or a command
\* the shell forked, end of its own accord.
FairLife ==
    /\ SpecLife
    /\ WF_vars(output_runner)
    /\ WF_vars(error_runner)
    /\ WF_vars(input_runner)
    /\ WF_vars(ProcessExited)
    /\ WF_vars(StdoutEof)
    /\ WF_vars(\E i \in 1..Len(orphans) : OrphanTasksFinish(i))

\* ============================================================== properties
\* The lines among a sequence of queue items (everything but b"").
DataOf(items) == SelectSeq(items, IsLine)

\* How many times b"" occurs in a sequence of queue items.
Markers(items) == Len(SelectSeq(items, LAMBDA item : item = EmptyBytes))

\* Everything output_runner has enqueued so far, in order.
OutputSoFar == delivered \o output_queue

TaskOver(pc) == pc \in {"done", "failed"}

\* C1: for a child that has exited, a caller that calls start() and then
\* read() repeatedly receives the end-of-stream marker b""; no read() up to
\* the one that returns the marker blocks forever.  Stated on the final
\* state: once the child has exited and its stdout reached end of file, a
\* read() that is pending before the marker was returned either finds an
\* item in the output queue or output_runner still has a step to take.
C1_ReadReachesEndOfStream ==
    ( /\ callerPc = "reading"
      /\ returncode # None
      /\ stdout_eof
      /\ Markers(delivered) = 0
      /\ output_queue = <<>> )
    => ~TaskOver(output_task)

\* C2: for a channel of capacity C, the output channel never holds more
\* than C lines, whatever the number of lines enqueued while nobody reads
\* (an enqueue into a full channel evicts the oldest line).  Stated for
\* every capacity below the number of lines the child writes.
C2_ChannelHoldsAtMostCapacity ==
    \A C \in 1..(MaxLines - 1) : Len(DataOf(output_queue)) <= C

\* C3: within one stream, the lines returned by successive read() calls
\* are a subsequence of the lines the child wrote to the stdout pipe, in
\* production order: each returned line was written to that pipe, none is
\* returned before a line written earlier, none is returned twice.
C3_ReadsFollowProductionOrder ==
    LET got == DataOf(delivered)
    IN  /\ \A i \in 1..Len(got) :
              /\ got[i].id \in 1..Len(written)
              /\ written[got[i].id] = got[i]
              /\ PipeOf(got[i].fd) = "stdout"
        /\ \A i, j \in 1..Len(got) : i < j => got[i].id < got[j].id

\* C3 witness: read() has returned three lines of the child.
C3_Witness == Len(DataOf(delivered)) = MaxLines

\* C4: when the end-of-stream marker is enqueued on the output channel,
\* every line the child wrote to its stdout pipe has already been enqueued
\* on that channel; no written line is left unread in the pipe.
C4_MarkerAfterAllOutput ==
    Markers(OutputSoFar) > 0
    => \A i \in 1..Len(written) :
          PipeOf(written[i].fd) = "stdout"
          => written[i] \in Range(OutputSoFar)

\* C5: every reader task that start() launched enqueues the terminal empty
\* marker on its own channel exactly once when it leaves its loop, and
\* nothing after it: a reader that has finished has put exactly one b"" on
\* its channel, as the last item.
C5_EveryReaderEnqueuesMarkerOnce ==
    /\ output_task = "done"
       => /\ Markers(OutputSoFar) = 1
          /\ OutputSoFar[Len(OutputSoFar)] = EmptyBytes
    /\ error_task = "done"
       => /\ Markers(error_queue) = 1
          /\ error_queue[Len(error_queue)] = EmptyBytes

\* C6: once the end-of-stream marker has been returned by a read(), every
\* later read() returns the end-of-stream sentinel too instead of blocking:
\* a read() pending after the marker was returned finds b"" to return.
C6_ReadAfterEndOfStreamReturns ==
    (callerPc = "reading" /\ Markers(delivered) > 0)
    => (Len(output_queue) > 0 /\ Head(output_queue) = EmptyBytes)

\* C7: stream routing.  No line written to stdout reaches the error
\* channel; with a dedicated stderr pipe no line written to stderr reaches
\* the output channel, and once the child is gone and the error reader has
\* stopped, every line written to stderr has been put on the error channel.
C7_StreamRouting ==
    /\ \A i \in 1..Len(error_queue) : error_queue[i].fd # "stdout"
    /\ dedicated_stderr
       => \A i \in 1..Len(OutputSoFar) : OutputSoFar[i].fd # "stderr"
    /\ (dedicated_stderr /\ returncode # None /\ TaskOver(error_task))
       => \A i \in 1..Len(written) :
             written[i].fd = "stderr" => written[i] \in Range(error_queue)

\* C8: write(d) while the process is running enqueues exactly one item on
\* the input channel: d itself if d ends with \r\n, otherwise d followed by
\* \r\n.  The item ends with \r\n and normalising it again changes nothing.
C8_WriteEnqueuesNormalizedItem ==
    [][ (nWrites' = nWrites + 1 /\ returncode = None)
        => LET d == lastWrite'.data
               n == Len(input_queue')
               item == input_queue'[n]
               terminated(b) == /\ Len(b) >= 2
                                /\ b[Len(b) - 1] = CR
                                /\ b[Len(b)] = LF
           IN  /\ n = Len(input_queue) + 1
               /\ SubSeq(input_queue', 1, n - 1) = input_queue
               /\ item = IF terminated(d) THEN d ELSE d \o <<CR, LF>>
               /\ terminated(item)
               /\ Normalize(item) = item ]_vars

\* C8 witness: the process is running, write() was called with data that
\* already ends with \r\n after a write of unterminated data, and both
\* items are queued.
C8_Witness ==
    /\ returncode = None
    /\ nWrites = 2
    /\ lastWrite.running
    /\ lastWrite.data = CRLF
    /\ input_queue = <<<<Letter, CR, LF>>, CRLF>>

\* C9: a write() attempted after the child exited or after its input stream
\* closed drops the data: nothing of it is written to stdin and the item
\* does not stay buffered in the input channel.  Stated on the state after
\* the writer task has stopped: if the latest write() came after the exit
\* or the close, the input channel holds nothing.
C9_LateWriteIsDropped ==
    ( /\ manage_stdin
      /\ nWrites > 0
      /\ (~lastWrite.running \/ lastWrite.closing)
      /\ TaskOver(input_task) )
    => input_queue = <<>>

\* C10: after start() the output channel exists, the error channel exists
\* if and only if dedicated_stderr is set and the input channel exists if
\* and only if manage_stdin is set, so that every channel has its task.
C10_ChannelsFollowFlags ==
    process # None
    => /\ "output" \in queues
       /\ ("error" \in queues <=> dedicated_stderr)
       /\ ("input" \in queues <=> manage_stdin)
       /\ ("output" \in queues => output_task # "none")
       /\ ("error" \in queues => error_task # "none")
       /\ ("input" \in queues => input_task # "none")

\* Every task the Manager ever created has finished.
AllTasksOver ==
    /\ RunningTasks = 0
    /\ \A i \in 1..Len(orphans) : orphans[i].tasks = 0

\* C11: disposing a Manager whose child has been started and has not exited
\* kills it: after disposal no process the Manager spawned is running.
C11_DisposeKillsEveryChild ==
    disposed => /\ ~childAlive
                /\ \A i \in 1..Len(orphans) : ~orphans[i].alive

C19_AtMostOneChild == spawned <= 1 /\ orphans = <<>>

\* The text after the removal passes, pass k being the substitution of
\* pattern k in the result of pass k - 1.
AfterPasses(remove_patterns, text) ==
    LET pass[k \in 0..Len(remove_patterns)] ==
            IF k = 0 THEN text ELSE sub(remove_patterns[k], pass[k - 1])
    IN  pass[Len(remove_patterns)]

\* C13: a line that matches the condition of an Action has the callable
\* invoked exactly once, with the text left by the removal patterns applied
\* in list order, each to the result of the one before; a line that does not
\* match has the callable not invoked at all.
C13_ActionInvokedOnceWithTransformedText ==
    performed # <<>> =>
        LET obj == action_obj[1]
            data == performed[1].data
        IN  IF Decodes(data) /\ match(obj.condition, Decode(data))
            THEN invoked = <<AfterPasses(obj.remove_patterns, Decode(data))>>
            ELSE invoked = <<>>

\* A matching line on which the order of the removal patterns decides the
\* text: "aab" less "ab" then "b" is "a", less "b" then "ab" is "aa".
C13_Witness ==
    /\ performed # <<>>
    /\ performed[1].data = <<97, 97, 98>>
    /\ action_obj[1].remove_patterns = <<Lit(<<97, 98>>), Lit(<<98>>)>>
    /\ invoked = <<(<<97>>)>>

\* A description register_actions can turn into an Action.
WellFormed(action) ==
    /\ Compiles(action.condition)
    /\ \A k \in 1..Len(action.remove_patterns) :
           Compiles(action.remove_patterns[k])
    /\ action.callable \in Importable

\* The members of a sequence that satisfy Test, in their order.
SelectIndices(n, Test(_)) ==
    LET F[k \in 0..n] ==
            IF k = 0 THEN <<>>
            ELSE IF Test(k) THEN Append(F[k - 1], k) ELSE F[k - 1]
    IN  F[n]

\* A list of well-formed descriptions has been registered and a line that
\* decodes has been handed to perform_actions.
RulesEvaluated ==
    /\ engine_descs # <<>>
    /\ perform_result # <<>>
    /\ \A k \in 1..Len(engine_descs[1]) : WellFormed(engine_descs[1][k])
    /\ Decodes(perform_result[1].data)

\* The rules of the registered list whose condition matches the line.
MatchingRules ==
    SelectIndices(Len(engine_descs[1]),
        LAMBDA k : match(engine_descs[1][k].condition,
                         Decode(perform_result[1].data)))

\* C14: perform_actions evaluates every registered rule exactly once per
\* line, in registration order, whether or not earlier rules matched.
C14_EveryRuleEvaluatedInOrder ==
    RulesEvaluated =>
        evaluated = [k \in 1..Len(engine_descs[1]) |-> k]

\* C15: when several registered rules match the same line, each of them
\* fires exactly once, in registration order, and no error leaves
\* perform_actions, even if the action of one of them raises.
C15_MatchingRulesAllFire ==
    (RulesEvaluated /\ Len(MatchingRules) >= 2) =>
        /\ fired = MatchingRules
        /\ perform_result[1].result = None

\* C16: register_actions over a list with a malformed description still
\* registers every well-formed description of the list, in the original
\* order.
C16_WellFormedRulesRegistered ==
    (/\ engine_descs # <<>>
     /\ \E k \in 1..Len(engine_descs[1]) : ~WellFormed(engine_descs[1][k]))
    =>
        /\ engine_actions # <<>>
        /\ LET descs == engine_descs[1]
               kept == SelectIndices(Len(descs),
                           LAMBDA k : WellFormed(descs[k]))
           IN  engine_actions[1] =
                   [j \in 1..Len(kept) |->
                       [condition |-> descs[kept[j]].condition,
                        callable |-> "module",
                        remove_patterns |-> descs[kept[j]].remove_patterns]]

\* C17: input_runner writes to the child's stdin only while returncode is
\* None and stdin is not closing, and when it finds stdin closing it stops,
\* the item it dequeued dropped and nothing written.
C17_NoWriteToClosingOrExited ==
    [][/\ stdin_written' # stdin_written =>
              returncode = None /\ ~stdin_closing
       /\ (/\ input_task' # input_task
           /\ returncode = None
           /\ stdin_closing
           /\ input_queue # <<>>) =>
              /\ input_task' = "done"
              /\ stdin_written' = stdin_written
              /\ input_queue' = Tail(input_queue)]_vars

\* The writer wrote one item, then found stdin closing and stopped with
\* the next item dropped.
C17_Witness ==
    /\ input_task = "done"
    /\ returncode = None
    /\ stdin_closing
    /\ Len(stdin_written) >= 1
    /\ Len(stdin_written) + Len(input_queue) < nWrites

\* What has been written to stdin followed by what still waits in the
\* input queue.
WrittenThenQueued == stdin_written \o input_queue

C20_OnlyTheMarkerIsEmpty ==
    \A i \in 1..Len(OutputSoFar) :
        OutputSoFar[i].size = 0 <=> ~IsLine(OutputSoFar[i])

\* read() has returned an empty line of output, as one byte, and after it
\* the marker.
C20_Witness ==
    \E i, j \in 1..Len(delivered) :
        /\ i < j
        /\ IsLine(delivered[i])
        /\ delivered[i].size = 1
        /\ delivered[j] = EmptyBytes

====
